---------------------------- MODULE Spec2Model ----------------------------
(***************************************************************************)
(* Model of mstarpy's resilient fetch subsystem (src/mstarpy/api.py):      *)
(*   request_with_retry      one logical HTTP request: manual redirect     *)
(*                           following, retries with backoff               *)
(*   fetch_all_items_robust  the page loop built on top of it              *)
(* The network is the environment: every physical request either faults    *)
(* (requests raises a RequestException) or yields a response, chosen       *)
(* nondeterministically.  The body of a response is read only once, by     *)
(* response.json() at api.py:66, and is chosen there.                      *)
(* Spec is one call against that network.  SpecTwo is two calls with the   *)
(* same arguments, interleaved step by step, against a transport whose     *)
(* responses depend on url and page only.                                  *)
(***************************************************************************)
EXTENDS Integers, Sequences, FiniteSets, TLC

(* ------------------------------ bounds --------------------------------- *)
\* largest page index the collector may reach
MaxPage == 3
\* largest number of rows in one page
MaxRows == 2
\* largest 'total' an envelope reports
MaxTotal == 5
\* largest 'pageSize' an envelope reports
MaxPageSize == 2
\* largest max_retries passed to a direct request_with_retry call
MaxRetries == 3
\* resolution of the clock: ticks in one second
TicksPerSecond == 2

(* ------------------------- program constants --------------------------- *)
\* api.py:102
MAX_REDIRECTS == 5
\* api.py:103
REDIRECT_CODES == {301, 307}
\* api.py:94, the default of request_with_retry's max_retries parameter
DEFAULT_MAX_RETRIES == 3
\* api.py:95, the default of backoff_factor, 1.0 second, in ticks
DEFAULT_BACKOFF_FACTOR == TicksPerSecond

(* --------------------------- the environment --------------------------- *)
\* the max_retries values fetch_all_items_robust is called with: below its
\* own default and at it
RetryArgs == {0, DEFAULT_MAX_RETRIES}

\* the positive backoff_factor values request_with_retry is called with, in
\* ticks: the smallest one on the clock's grid (below one second) and the
\* default
BackoffFactors == {1, DEFAULT_BACKOFF_FACTOR}

\* api.py:136, the values random.uniform(0, 1) returns, in ticks: its two
\* extremes, 0 and 1 second
Jitter == {0, TicksPerSecond}

\* a mapping without keys: an empty dict
EmptyParams == [ k \in {} |-> 0 ]

\* the params mappings fetch_all_items_robust is called with: none or an
\* empty one (api.py:28-29), and one that holds a filter and a 'page' of
\* the caller's own
ParamChoices == { EmptyParams, [ page |-> 9, q |-> 7 ] }

\* no call of requests.request
NoRequest ==
    [ method |-> "none", url |-> "none", headers |-> "none", verify |-> TRUE,
      data |-> "none", params |-> EmptyParams, proxies |-> "none",
      timeout |-> 0 ]

\* api.py:39-46, 91-100: what request_with_retry receives from the page loop
\* when the page's parameters are rp; verify and data keep their defaults
FetchArgs(rp) ==
    [ method |-> "GET", url |-> "base_url", headers |-> "user-agent",
      verify |-> TRUE, data |-> "None", params |-> rp, proxies |-> "proxies",
      timeout |-> 30 ]

\* what a direct call of request_with_retry receives: a POST with a body and
\* a GET that leaves the defaults
DirectArgs ==
    { [ method |-> "POST", url |-> "url", headers |-> "headers",
        verify |-> FALSE, data |-> "data", params |-> [ q |-> 7 ],
        proxies |-> "proxies", timeout |-> 5 ],
      [ method |-> "GET", url |-> "url", headers |-> "None",
        verify |-> TRUE, data |-> "None", params |-> EmptyParams,
        proxies |-> "None", timeout |-> 30 ] }

\* status codes the server answers with
StatusCodes == {200, 301, 302, 307, 404, 500}

\* a response as the executor sees it: status_code and whether the headers
\* hold "Location" (read only for a redirect status, api.py:118)
Responses ==
    { [status |-> s, location |-> l] : s \in StatusCodes, l \in BOOLEAN }
    \ { [status |-> s, location |-> TRUE] : s \in StatusCodes \ REDIRECT_CODES }

NoResponse == [status |-> 0, location |-> FALSE]

\* an optional JSON integer field: <<>> when the key is absent, <<v>> otherwise
Optional(S) == {<< >>} \cup { <<v>> : v \in S }

\* response bodies.  kind "nonjson": response.json() raises ValueError;
\* kind "badtotal": a JSON object whose 'total' is not a number (the division
\* at api.py:79 raises TypeError); kind "envelope": rows is the number of
\* records of data['rows'] (0 also when the key is absent).
Bodies ==
    { [kind |-> "nonjson", rows |-> 0, total |-> << >>, pageSize |-> << >>] }
    \cup [ kind : {"badtotal"}, rows : 1..MaxRows, total : {<< >>},
           pageSize : Optional(0..MaxPageSize) ]
    \cup [ kind : {"envelope"}, rows : 0..MaxRows,
           total : Optional(0..MaxTotal), pageSize : Optional(0..MaxPageSize) ]

NoBody == [kind |-> "none", rows |-> 0, total |-> << >>, pageSize |-> << >>]

\* the records of page p when it holds n rows
Rows(p, n) == [ i \in 1..n |-> <<p, i>> ]

(* ------------------------------- state --------------------------------- *)
VARIABLES
    pc,              \* position: "start", "loop" (api.py:35), "attempt" (111),
                     \* "redirect" (117), "except" (128), "decode" (65),
                     \* "returned", "exec_returned", "raised"
    caller,          \* who called request_with_retry: "fetch" or "direct"
    arg_max_retries, \* max_retries argument of fetch_all_items_robust
    all_items,       \* api.py:25
    current_page,    \* api.py:26
    max_retries,     \* max_retries parameter of request_with_retry
    retry_count,     \* api.py:110
    redirect_count,  \* api.py:115
    res,             \* api.py:113, 121
    err,             \* the exception in flight or raised, "none" otherwise
    pageLog,         \* history: the page of every logical page request
    rowsLog,         \* history: the number of rows of every decoded page
    lastBody,        \* history: the body decoded last
    sameTS,          \* history: every decoded body carried lastBody's total and pageSize
    noTotal,         \* history: every decoded body had total absent or 0
    attempts,        \* history: executions of api.py:113 in this logical request
    hops,            \* history: physical requests issued in this attempt
    sleeps,          \* history: executions of api.py:138 in this logical request
    backoff_factor,  \* backoff_factor parameter of request_with_retry, in ticks
    delay,           \* api.py:136, in ticks; 0 before the first sleep
    params,          \* the caller's params mapping (the dict object, api.py:9)
    request_params,  \* api.py:36
    params0,         \* history: the caller's mapping as it was at the call
    args,            \* method, url, headers, verify, timeout, data, params and
                     \* proxies of request_with_retry (api.py:91-100)
    sent,            \* history: the arguments of the attempt's last
                     \* requests.request call (api.py:113, 121)
    first,           \* history: the arguments of the attempt's first
                     \* requests.request call (api.py:113)
    physical,        \* history: the requests.request calls of a direct call of
                     \* request_with_retry so far (api.py:113, 121); the page
                     \* loop's calls run the same code and are not counted
    other,           \* the locals and history of a second call, which is not
                     \* running now
    world            \* the arguments both calls are made with, and a transport
                     \* whose responses depend on url and page only

vars == << pc, caller, arg_max_retries, all_items, current_page, max_retries,
           retry_count, redirect_count, res, err, pageLog, rowsLog, lastBody,
           sameTS, noTotal, attempts, hops, sleeps, backoff_factor, delay,
           params, request_params, params0, args, sent, first, physical,
           other, world >>

pairVars == << other, world >>
wireVars == << args, sent, first >>
paramVars == << params, request_params, params0 >>
backoffVars == << backoff_factor, delay >>
collectorVars == << arg_max_retries, all_items, current_page >>
collectorHist == << pageLog, rowsLog, lastBody, sameTS, noTotal >>

\* a call that has not begun
InitCall ==
    /\ pc = "start"
    /\ caller = "none"
    /\ arg_max_retries = DEFAULT_MAX_RETRIES
    /\ all_items = << >>
    /\ current_page = 1
    /\ max_retries = DEFAULT_MAX_RETRIES
    /\ retry_count = 0
    /\ redirect_count = 0
    /\ res = NoResponse
    /\ err = "none"
    /\ pageLog = << >>
    /\ rowsLog = << >>
    /\ lastBody = NoBody
    /\ sameTS = TRUE
    /\ noTotal = TRUE
    /\ attempts = 0
    /\ hops = 0
    /\ sleeps = 0
    /\ backoff_factor = DEFAULT_BACKOFF_FACTOR
    /\ delay = 0
    /\ params = EmptyParams
    /\ request_params = EmptyParams
    /\ params0 = EmptyParams
    /\ args = NoRequest
    /\ sent = NoRequest
    /\ first = NoRequest
    /\ physical = 0

\* the locals and history of the running call
Frame ==
    [ pc |-> pc, caller |-> caller, arg_max_retries |-> arg_max_retries,
      all_items |-> all_items, current_page |-> current_page,
      max_retries |-> max_retries, retry_count |-> retry_count,
      redirect_count |-> redirect_count, res |-> res, err |-> err,
      pageLog |-> pageLog, rowsLog |-> rowsLog, lastBody |-> lastBody,
      sameTS |-> sameTS, noTotal |-> noTotal, attempts |-> attempts,
      hops |-> hops, sleeps |-> sleeps, backoff_factor |-> backoff_factor,
      delay |-> delay, params |-> params,
      request_params |-> request_params, params0 |-> params0,
      args |-> args, sent |-> sent, first |-> first,
      physical |-> physical ]

\* the locals and history of a call that has not begun
IdleFrame ==
    [ pc |-> "start", caller |-> "none",
      arg_max_retries |-> DEFAULT_MAX_RETRIES, all_items |-> << >>,
      current_page |-> 1, max_retries |-> DEFAULT_MAX_RETRIES,
      retry_count |-> 0, redirect_count |-> 0, res |-> NoResponse,
      err |-> "none", pageLog |-> << >>, rowsLog |-> << >>,
      lastBody |-> NoBody, sameTS |-> TRUE, noTotal |-> TRUE,
      attempts |-> 0, hops |-> 0, sleeps |-> 0,
      backoff_factor |-> DEFAULT_BACKOFF_FACTOR, delay |-> 0,
      params |-> EmptyParams, request_params |-> EmptyParams,
      params0 |-> EmptyParams, args |-> NoRequest, sent |-> NoRequest,
      first |-> NoRequest, physical |-> 0 ]

\* no second call and no fixed transport
NoWorld ==
    [ m |-> DEFAULT_MAX_RETRIES, params |-> EmptyParams, transport |-> << >> ]

Init ==
    /\ InitCall
    /\ other = IdleFrame
    /\ world = NoWorld


(* ------------------------- request_with_retry -------------------------- *)
\* api.py:113, the arguments of the attempt's first request
FirstRequest(a) ==
    [ method |-> a.method, url |-> a.url, headers |-> a.headers,
      verify |-> a.verify, data |-> a.data, params |-> a.params,
      proxies |-> a.proxies, timeout |-> a.timeout ]

\* api.py:118, res.headers["Location"] of a redirect response that has one
RedirectedUrl(r) == "redirected_url"

\* mutant: a redirect is followed as a browser would, by a GET without body
RedirectRequestAsGet(a, target) ==
    [ method |-> "GET", url |-> target, headers |-> a.headers,
      verify |-> a.verify, data |-> "None", params |-> a.params,
      proxies |-> a.proxies, timeout |-> a.timeout ]

\* api.py:121, the arguments of the request that follows a redirect to target
RedirectRequest(a, target) ==
    [ method |-> a.method, url |-> target, headers |-> a.headers,
      verify |-> a.verify, data |-> a.data, params |-> a.params,
      proxies |-> a.proxies, timeout |-> a.timeout ]

\* api.py:113, 121: the count of requests.request calls after one more, in a
\* call made by `who`
Issued(n, who) == IF who = "direct" THEN n + 1 ELSE n

\* api.py:111, the retry loop's test
LoopCondition(rc, mr) == rc <= mr

\* api.py:117, the redirect loop's test
FollowCondition(status, rcount) ==
    status \in REDIRECT_CODES /\ rcount <= MAX_REDIRECTS

\* mutant: every status from 300 on raises
RaisesForStatusFrom300(status) == status >= 300

\* api.py:125, Response.raise_for_status: HTTPError for a 4xx or 5xx status
RaisesForStatus(status) == 400 <= status /\ status < 600

\* api.py:129, retry_count += 1
NextRetryCount(rc) == rc + 1

\* mutant: the handler never gives up
BudgetNeverExhausted(rc, mr) == FALSE

\* mutant: the budget test off by one
BudgetExhaustedEarly(rc, mr) == rc >= mr

\* api.py:131, the budget test of the handler
BudgetExhausted(rc, mr) == rc > mr

\* api.py:91-110: a call of request_with_retry by the library's user
RequestWithRetry(mr) ==
    /\ pc = "start"
    /\ pc' = "attempt"
    /\ caller' = "direct"
    /\ max_retries' = mr
    /\ retry_count' = 0
    /\ attempts' = 0
    /\ hops' = 0
    /\ sleeps' = 0
    /\ UNCHANGED << redirect_count, res, err >>
    /\ UNCHANGED collectorVars
    /\ UNCHANGED collectorHist
    /\ \E bf \in BackoffFactors : backoff_factor' = bf
    /\ delay' = 0
    /\ UNCHANGED paramVars
    /\ \E a \in DirectArgs : args' = a
    /\ sent' = NoRequest
    /\ first' = NoRequest
    /\ UNCHANGED pairVars
    /\ physical' = 0

\* api.py:111-115: the loop test holds and the attempt's first request is issued
Attempt ==
    /\ pc = "attempt"
    /\ LoopCondition(retry_count, max_retries)
    /\ attempts' = attempts + 1
    /\ hops' = 1
    /\ \/ /\ err' = "ConnectionError"
          /\ pc' = "except"
          /\ UNCHANGED << res, redirect_count >>
       \/ /\ \E r \in Responses : res' = r
          /\ redirect_count' = 0
          /\ pc' = "redirect"
          /\ UNCHANGED err
    /\ UNCHANGED << caller, max_retries, retry_count, sleeps >>
    /\ UNCHANGED collectorVars
    /\ UNCHANGED collectorHist
    /\ UNCHANGED backoffVars
    /\ UNCHANGED paramVars
    /\ sent' = FirstRequest(args)
    /\ first' = sent'
    /\ UNCHANGED args
    /\ UNCHANGED pairVars
    /\ physical' = Issued(physical, caller)

\* api.py:111, 139: the loop test fails and the statement after the loop raises
LoopExit ==
    /\ pc = "attempt"
    /\ ~LoopCondition(retry_count, max_retries)
    /\ err' = "RequestException"
    /\ pc' = "raised"
    /\ UNCHANGED << caller, max_retries, retry_count, redirect_count, res,
                    attempts, hops, sleeps >>
    /\ UNCHANGED collectorVars
    /\ UNCHANGED collectorHist
    /\ UNCHANGED backoffVars
    /\ UNCHANGED paramVars
    /\ UNCHANGED wireVars
    /\ UNCHANGED pairVars
    /\ UNCHANGED physical

\* mutant: following a redirect rebinds url to the redirect's target
FollowRedirectRebindsUrl ==
    /\ pc = "redirect"
    /\ FollowCondition(res.status, redirect_count)
    /\ \/ /\ ~res.location
          /\ err' = "KeyError"
          /\ pc' = "raised"
          /\ UNCHANGED << res, redirect_count, hops, sent, args, physical >>
       \/ /\ res.location
          /\ hops' = hops + 1
          /\ physical' = Issued(physical, caller)
          /\ sent' = RedirectRequest(args, RedirectedUrl(res))
          /\ err' = "ConnectionError"
          /\ pc' = "except"
          /\ UNCHANGED << res, redirect_count, args >>
       \/ /\ res.location
          /\ hops' = hops + 1
          /\ physical' = Issued(physical, caller)
          /\ sent' = RedirectRequest(args, RedirectedUrl(res))
          /\ \E r \in Responses : res' = r
          /\ redirect_count' = redirect_count + 1
          /\ pc' = "redirect"
          /\ UNCHANGED err
          /\ args' = [args EXCEPT !.url = RedirectedUrl(res)]
    /\ UNCHANGED << caller, max_retries, retry_count, attempts, sleeps >>
    /\ UNCHANGED collectorVars
    /\ UNCHANGED collectorHist
    /\ UNCHANGED backoffVars
    /\ UNCHANGED paramVars
    /\ UNCHANGED first
    /\ UNCHANGED pairVars

\* mutant: the handler at api.py:128 catches the KeyError too
FollowRedirectCatchesKeyError ==
    /\ pc = "redirect"
    /\ FollowCondition(res.status, redirect_count)
    /\ \/ /\ ~res.location
          /\ err' = "KeyError"
          /\ pc' = "except"
          /\ UNCHANGED << res, redirect_count, hops, sent, physical >>
       \/ /\ res.location
          /\ hops' = hops + 1
          /\ physical' = Issued(physical, caller)
          /\ sent' = RedirectRequest(args, RedirectedUrl(res))
          /\ err' = "ConnectionError"
          /\ pc' = "except"
          /\ UNCHANGED << res, redirect_count >>
       \/ /\ res.location
          /\ hops' = hops + 1
          /\ physical' = Issued(physical, caller)
          /\ sent' = RedirectRequest(args, RedirectedUrl(res))
          /\ \E r \in Responses : res' = r
          /\ redirect_count' = redirect_count + 1
          /\ pc' = "redirect"
          /\ UNCHANGED err
    /\ UNCHANGED << caller, max_retries, retry_count, attempts, sleeps >>
    /\ UNCHANGED collectorVars
    /\ UNCHANGED collectorHist
    /\ UNCHANGED backoffVars
    /\ UNCHANGED paramVars
    /\ UNCHANGED << args, first >>
    /\ UNCHANGED pairVars

\* api.py:117-123: one pass of the redirect loop.  A missing Location header
\* is a KeyError, which the handler at api.py:128 does not catch.
FollowRedirect ==
    /\ pc = "redirect"
    /\ FollowCondition(res.status, redirect_count)
    /\ \/ /\ ~res.location
          /\ err' = "KeyError"
          /\ pc' = "raised"
          /\ UNCHANGED << res, redirect_count, hops, sent, physical >>
       \/ /\ res.location
          /\ hops' = hops + 1
          /\ physical' = Issued(physical, caller)
          /\ sent' = RedirectRequest(args, RedirectedUrl(res))
          /\ err' = "ConnectionError"
          /\ pc' = "except"
          /\ UNCHANGED << res, redirect_count >>
       \/ /\ res.location
          /\ hops' = hops + 1
          /\ physical' = Issued(physical, caller)
          /\ sent' = RedirectRequest(args, RedirectedUrl(res))
          /\ \E r \in Responses : res' = r
          /\ redirect_count' = redirect_count + 1
          /\ pc' = "redirect"
          /\ UNCHANGED err
    /\ UNCHANGED << caller, max_retries, retry_count, attempts, sleeps >>
    /\ UNCHANGED collectorVars
    /\ UNCHANGED collectorHist
    /\ UNCHANGED backoffVars
    /\ UNCHANGED paramVars
    /\ UNCHANGED << args, first >>
    /\ UNCHANGED pairVars

\* api.py:117, 125-126: the redirect loop is left; raise_for_status, return res.
\* On the return to fetch_all_items_robust the frame of request_with_retry is
\* gone and res is the caller's `response` (api.py:39); the final state of a
\* direct call keeps the frame as it was at the return statement.
FinishAttempt ==
    /\ pc = "redirect"
    /\ ~FollowCondition(res.status, redirect_count)
    /\ \/ /\ RaisesForStatus(res.status)
          /\ err' = "HTTPError"
          /\ pc' = "except"
          /\ UNCHANGED << retry_count, redirect_count, attempts, hops, sleeps,
                          delay, wireVars >>
       \/ /\ ~RaisesForStatus(res.status)
          /\ caller = "direct"
          /\ pc' = "exec_returned"
          /\ UNCHANGED << err, retry_count, redirect_count, attempts, hops,
                          sleeps, delay, wireVars >>
       \/ /\ ~RaisesForStatus(res.status)
          /\ caller = "fetch"
          /\ pc' = "decode"
          /\ retry_count' = 0
          /\ redirect_count' = 0
          /\ attempts' = 0
          /\ hops' = 0
          /\ sleeps' = 0
          /\ delay' = 0
          /\ args' = NoRequest
          /\ sent' = NoRequest
          /\ first' = NoRequest
          /\ UNCHANGED err
    /\ UNCHANGED << caller, max_retries, res, backoff_factor >>
    /\ UNCHANGED collectorVars
    /\ UNCHANGED collectorHist
    /\ UNCHANGED paramVars
    /\ UNCHANGED pairVars
    /\ UNCHANGED physical

\* 2 ** n
RECURSIVE Pow2(_)
Pow2(n) == IF n = 0 THEN 1 ELSE 2 * Pow2(n - 1)

\* api.py:136, the delay before retry rc + 1 when the jitter drawn is j
Delay(bf, rc, j) == bf * Pow2(rc - 1) + j

\* mutant: the retry is made by the page loop, as a new logical page request
ExceptRestartsPage ==
    /\ pc = "except"
    /\ retry_count' = NextRetryCount(retry_count)
    /\ res' = NoResponse
    /\ hops' = 0
    /\ \/ /\ BudgetExhausted(retry_count', max_retries)
          /\ pc' = "raised"
          /\ UNCHANGED << sleeps, err, delay >>
       \/ /\ ~BudgetExhausted(retry_count', max_retries)
          /\ sleeps' = sleeps + 1
          /\ \E j \in Jitter : delay' = Delay(backoff_factor, retry_count', j)
          /\ err' = "none"
          /\ pc' = IF caller = "fetch" THEN "loop" ELSE "attempt"
    /\ UNCHANGED << caller, max_retries, redirect_count, attempts,
                    backoff_factor >>
    /\ UNCHANGED collectorVars
    /\ UNCHANGED collectorHist
    /\ UNCHANGED paramVars
    /\ sent' = NoRequest
    /\ first' = NoRequest
    /\ UNCHANGED args
    /\ UNCHANGED pairVars
    /\ UNCHANGED physical

\* mutant: the handler sleeps before it tests the budget
ExceptSleepsFirst ==
    /\ pc = "except"
    /\ retry_count' = NextRetryCount(retry_count)
    /\ res' = NoResponse
    /\ hops' = 0
    /\ sleeps' = sleeps + 1
    /\ \/ /\ BudgetExhausted(retry_count', max_retries)
          /\ pc' = "raised"
          /\ UNCHANGED << err, delay >>
       \/ /\ ~BudgetExhausted(retry_count', max_retries)
          /\ err' = "none"
          /\ \E j \in Jitter : delay' = Delay(backoff_factor, retry_count', j)
          /\ pc' = "attempt"
    /\ UNCHANGED << caller, max_retries, redirect_count, attempts,
                    backoff_factor >>
    /\ UNCHANGED collectorVars
    /\ UNCHANGED collectorHist
    /\ UNCHANGED paramVars
    /\ sent' = NoRequest
    /\ first' = NoRequest
    /\ UNCHANGED args
    /\ UNCHANGED pairVars
    /\ UNCHANGED physical

\* api.py:128-138: the handler: e is raised again when the budget is spent,
\* and is handled (and gone) after the sleep otherwise.  res is rebound at
\* api.py:113 before it is read again, so the failed attempt's response is
\* dropped here.
Except ==
    /\ pc = "except"
    /\ retry_count' = NextRetryCount(retry_count)
    /\ res' = NoResponse
    /\ hops' = 0
    /\ \/ /\ BudgetExhausted(retry_count', max_retries)
          /\ pc' = "raised"
          /\ UNCHANGED << sleeps, err, delay >>
       \/ /\ ~BudgetExhausted(retry_count', max_retries)
          /\ sleeps' = sleeps + 1
          /\ \E j \in Jitter : delay' = Delay(backoff_factor, retry_count', j)
          /\ err' = "none"
          /\ pc' = "attempt"
    /\ UNCHANGED << caller, max_retries, redirect_count, attempts,
                    backoff_factor >>
    /\ UNCHANGED collectorVars
    /\ UNCHANGED collectorHist
    /\ UNCHANGED paramVars
    /\ sent' = NoRequest
    /\ first' = NoRequest
    /\ UNCHANGED args
    /\ UNCHANGED pairVars
    /\ UNCHANGED physical

(* ----------------------- fetch_all_items_robust ------------------------ *)
\* api.py:39-46: the call passes no max_retries, so request_with_retry runs
\* with its default whatever the caller's max_retries m is
ExecutorBudget(m) == DEFAULT_MAX_RETRIES

\* api.py:75, data.get('total', 0)
TotalOf(b) == IF b.total = << >> THEN 0 ELSE b.total[1]

\* api.py:76, data.get('pageSize', len(rows))
PageSizeOf(b) == IF b.pageSize = << >> THEN b.rows ELSE b.pageSize[1]

\* api.py:79, math.ceil(total / page_size) for total >= 0 and page_size > 0
\* (the float quotient is exact far beyond the values used here)
CeilDiv(total, page_size) == (total + page_size - 1) \div page_size

\* mutant: the last-page test with > for >=
IsLastPageStrict(page, total, page_size) ==
    page_size > 0 /\ page > CeilDiv(total, page_size)

\* api.py:78-81, the last-page test
IsLastPage(page, total, page_size) ==
    page_size > 0 /\ page >= CeilDiv(total, page_size)

\* mutant: the handler at api.py:85 swallows the error and leaves the loop
DecodeOutcomeSwallow(b, page) ==
    CASE b.kind = "nonjson" -> "empty"
      [] b.kind # "nonjson" /\ b.rows = 0 -> "empty"
      [] b.kind = "badtotal" /\ b.rows > 0 /\ PageSizeOf(b) > 0 -> "last"
      [] b.kind = "badtotal" /\ b.rows > 0 /\ PageSizeOf(b) <= 0 -> "continue"
      [] b.kind = "envelope" /\ b.rows > 0
           /\ IsLastPage(page, TotalOf(b), PageSizeOf(b)) -> "last"
      [] OTHER -> "continue"

\* mutant: an undecodable page is skipped
DecodeOutcomeSkip(b, page) ==
    CASE b.kind = "nonjson" -> "continue"
      [] b.kind # "nonjson" /\ b.rows = 0 -> "empty"
      [] b.kind = "badtotal" /\ b.rows > 0 /\ PageSizeOf(b) > 0 -> "TypeError"
      [] b.kind = "badtotal" /\ b.rows > 0 /\ PageSizeOf(b) <= 0 -> "continue"
      [] b.kind = "envelope" /\ b.rows > 0
           /\ IsLastPage(page, TotalOf(b), PageSizeOf(b)) -> "last"
      [] OTHER -> "continue"

\* mutant: the division of api.py:79 is evaluated whatever the page size is
DecodeOutcomeUnguarded(b, page) ==
    CASE b.kind = "nonjson" -> "ValueError"
      [] b.kind # "nonjson" /\ b.rows = 0 -> "empty"
      [] b.kind # "nonjson" /\ b.rows > 0 /\ PageSizeOf(b) = 0 -> "ZeroDivisionError"
      [] b.kind = "badtotal" /\ b.rows > 0 /\ PageSizeOf(b) # 0 -> "TypeError"
      [] b.kind = "envelope" /\ b.rows > 0 /\ PageSizeOf(b) # 0
           /\ page >= CeilDiv(TotalOf(b), PageSizeOf(b)) -> "last"
      [] OTHER -> "continue"

\* mutant: a page without rows does not end the loop
DecodeOutcomeIgnoresEmpty(b, page) ==
    CASE b.kind = "nonjson" -> "ValueError"
      [] b.kind = "badtotal" /\ b.rows > 0 /\ PageSizeOf(b) > 0 -> "TypeError"
      [] b.kind = "badtotal" /\ b.rows > 0 /\ PageSizeOf(b) <= 0 -> "continue"
      [] b.kind = "envelope" /\ b.rows > 0
           /\ IsLastPage(page, TotalOf(b), PageSizeOf(b)) -> "last"
      [] OTHER -> "continue"

\* mutant: the total of the page before is kept and used for the last-page test
DecodeOutcomeRemembersTotal(b, page) ==
    CASE b.kind = "nonjson" -> "ValueError"
      [] b.kind # "nonjson" /\ b.rows = 0 -> "empty"
      [] b.kind = "badtotal" /\ b.rows > 0 /\ PageSizeOf(b) > 0 -> "TypeError"
      [] b.kind = "badtotal" /\ b.rows > 0 /\ PageSizeOf(b) <= 0 -> "continue"
      [] b.kind = "envelope" /\ b.rows > 0
           /\ IsLastPage(page,
                         IF rowsLog = << >> THEN TotalOf(b) ELSE TotalOf(lastBody),
                         PageSizeOf(b)) -> "last"
      [] OTHER -> "continue"

\* api.py:65-87: what the page loop's body does with body b on page `page`
DecodeOutcome(b, page) ==
    CASE b.kind = "nonjson" -> "ValueError"
      [] b.kind # "nonjson" /\ b.rows = 0 -> "empty"
      [] b.kind = "badtotal" /\ b.rows > 0 /\ PageSizeOf(b) > 0 -> "TypeError"
      [] b.kind = "badtotal" /\ b.rows > 0 /\ PageSizeOf(b) <= 0 -> "continue"
      [] b.kind = "envelope" /\ b.rows > 0
           /\ IsLastPage(page, TotalOf(b), PageSizeOf(b)) -> "last"
      [] OTHER -> "continue"

\* api.py:72, all_items.extend(rows)
Extend(items, page, n) == items \o Rows(page, n)

\* mutant: the page counter advances by two
NextPageSkip(page) == page + 2

\* api.py:83, current_page += 1
NextPage(page) == page + 1

\* api.py:8-33: a call of fetch_all_items_robust with max_retries = m
FetchAllItemsRobust(m) ==
    /\ pc = "start"
    /\ pc' = "loop"
    /\ caller' = "fetch"
    /\ arg_max_retries' = m
    /\ all_items' = << >>
    /\ current_page' = 1
    /\ UNCHANGED << max_retries, retry_count, redirect_count, res, err,
                    attempts, hops, sleeps >>
    /\ UNCHANGED collectorHist
    /\ UNCHANGED backoffVars
    /\ \E p \in ParamChoices : params' = p /\ params0' = p
    /\ request_params' = EmptyParams
    /\ UNCHANGED wireVars
    /\ UNCHANGED pairVars
    /\ UNCHANGED physical

\* api.py:37, d['page'] = page on the mapping d
SetPage(d, page) ==
    [ k \in DOMAIN d \cup {"page"} |-> IF k = "page" THEN page ELSE d[k] ]

\* mutant: the page loop writes 'page' into the caller's mapping itself
PageRequestNoCopy ==
    /\ pc = "loop"
    /\ pc' = "attempt"
    /\ pageLog' = Append(pageLog, current_page)
    /\ max_retries' = ExecutorBudget(arg_max_retries)
    /\ retry_count' = 0
    /\ UNCHANGED << caller, redirect_count, res, err, attempts, hops, sleeps >>
    /\ UNCHANGED collectorVars
    /\ UNCHANGED << rowsLog, lastBody, sameTS, noTotal >>
    /\ backoff_factor' = DEFAULT_BACKOFF_FACTOR
    /\ delay' = 0
    /\ params' = SetPage(params, current_page)
    /\ request_params' = params'
    /\ UNCHANGED params0
    /\ args' = FetchArgs(request_params')
    /\ sent' = NoRequest
    /\ first' = NoRequest
    /\ UNCHANGED pairVars
    /\ UNCHANGED physical

\* api.py:35-46, 110: the loop's next logical page request enters
\* request_with_retry
PageRequest ==
    /\ pc = "loop"
    /\ pc' = "attempt"
    /\ pageLog' = Append(pageLog, current_page)
    /\ max_retries' = ExecutorBudget(arg_max_retries)
    /\ retry_count' = 0
    /\ UNCHANGED << caller, redirect_count, res, err, attempts, hops, sleeps >>
    /\ UNCHANGED collectorVars
    /\ UNCHANGED << rowsLog, lastBody, sameTS, noTotal >>
    /\ backoff_factor' = DEFAULT_BACKOFF_FACTOR
    /\ delay' = 0
    /\ request_params' = SetPage(params, current_page)
    /\ UNCHANGED << params, params0 >>
    /\ args' = FetchArgs(request_params')
    /\ sent' = NoRequest
    /\ first' = NoRequest
    /\ UNCHANGED pairVars
    /\ UNCHANGED physical

\* whether body b carries no usable total: the key absent, or 0
NoReliableTotal(b) == b.kind = "envelope" /\ TotalOf(b) = 0

\* api.py:65-89: the response is decoded and the page loop's body runs.
\* `response` is not read after api.py:66 and is dropped here.
Decode ==
    /\ pc = "decode"
    /\ \E b \in Bodies :
         /\ DecodeOutcome(b, current_page) = "continue" => current_page < MaxPage
         /\ lastBody' = b
         /\ sameTS' = ( \/ rowsLog = << >>
                        \/ /\ sameTS
                           /\ b.kind = lastBody.kind
                           /\ b.total = lastBody.total
                           /\ b.pageSize = lastBody.pageSize )
         /\ noTotal' = (noTotal /\ NoReliableTotal(b))
         /\ \/ /\ DecodeOutcome(b, current_page) = "ValueError"
               /\ err' = "ValueError"
               /\ pc' = "raised"
               /\ UNCHANGED << all_items, current_page, rowsLog >>
            \/ /\ DecodeOutcome(b, current_page) = "empty"
               /\ pc' = "returned"
               /\ rowsLog' = Append(rowsLog, b.rows)
               /\ UNCHANGED << all_items, current_page, err >>
            \/ /\ DecodeOutcome(b, current_page) \in {"TypeError", "ZeroDivisionError"}
               /\ all_items' = Extend(all_items, current_page, b.rows)
               /\ rowsLog' = Append(rowsLog, b.rows)
               /\ err' = DecodeOutcome(b, current_page)
               /\ pc' = "raised"
               /\ UNCHANGED current_page
            \/ /\ DecodeOutcome(b, current_page) = "last"
               /\ all_items' = Extend(all_items, current_page, b.rows)
               /\ rowsLog' = Append(rowsLog, b.rows)
               /\ pc' = "returned"
               /\ UNCHANGED << current_page, err >>
            \/ /\ DecodeOutcome(b, current_page) = "continue"
               /\ all_items' = Extend(all_items, current_page, b.rows)
               /\ rowsLog' = Append(rowsLog, b.rows)
               /\ current_page' = NextPage(current_page)
               /\ pc' = "loop"
               /\ UNCHANGED err
    /\ res' = NoResponse
    /\ UNCHANGED << caller, arg_max_retries, max_retries, pageLog,
                    retry_count, redirect_count, attempts, hops, sleeps >>
    /\ UNCHANGED backoffVars
    /\ UNCHANGED paramVars
    /\ UNCHANGED wireVars
    /\ UNCHANGED pairVars
    /\ UNCHANGED physical

(* --------------------------- specification ----------------------------- *)
Next ==
    \/ \E m \in RetryArgs : FetchAllItemsRobust(m)
    \/ \E mr \in -1..MaxRetries : RequestWithRetry(mr)
    \/ PageRequest
    \/ Attempt
    \/ LoopExit
    \/ FollowRedirect
    \/ FinishAttempt
    \/ Except
    \/ Decode

Spec == Init /\ [][Next]_vars

(* ------------------------------ two calls ------------------------------ *)
\* what the transport does with a page
PageKinds == {"rows", "empty", "nonjson", "redirect", "error500"}

\* transports whose answer depends on url and page only: pages with rows up
\* to some page, and one kind of page from there on
Transports ==
    { [ p \in 1..MaxPage |-> IF p < k THEN "rows" ELSE kind ] :
          k \in 1..MaxPage, kind \in PageKinds }

\* two calls of fetch_all_items_robust with the same arguments against one
\* such transport
Worlds == [ m : RetryArgs, params : ParamChoices, transport : Transports ]

\* the transport's answer to the request for a page at base_url
FirstResponse(kind) ==
    [ status |-> CASE kind = "error500" -> 500
                   [] kind = "redirect" -> 301
                   [] OTHER -> 200,
      location |-> (kind = "redirect") ]

\* the transport's answer to a request at redirected_url
RedirectedResponse == [ status |-> 200, location |-> FALSE ]

\* the body the transport sends for a page
BodyFor(kind) ==
    CASE kind = "nonjson" ->
             [ kind |-> "nonjson", rows |-> 0, total |-> << >>, pageSize |-> << >> ]
      [] kind = "empty" ->
             [ kind |-> "envelope", rows |-> 0, total |-> << MaxTotal >>,
               pageSize |-> << MaxPageSize >> ]
      [] OTHER ->
             [ kind |-> "envelope", rows |-> MaxRows, total |-> << MaxTotal >>,
               pageSize |-> << MaxPageSize >> ]

\* the step is one the world allows: the call is made with the world's
\* arguments, no request faults, and every response and body is the
\* transport's for the url and the page requested
Deterministic ==
    /\ pc = "start" => (arg_max_retries' = world.m /\ params0' = world.params)
    /\ pc = "attempt" =>
          /\ pc' = "redirect"
          /\ res' = FirstResponse(world.transport[current_page])
    /\ (pc = "redirect" /\ pc' = "except") => err' = "HTTPError"
    /\ (pc = "redirect" /\ pc' = "redirect") => res' = RedirectedResponse
    /\ pc = "decode" => lastBody' = BodyFor(world.transport[current_page])

\* mutant: all_items is one list that both calls append to
SwitchSharesItems ==
    /\ other' = Frame
    /\ pc' = other.pc
    /\ caller' = other.caller
    /\ arg_max_retries' = other.arg_max_retries
    /\ all_items' = all_items
    /\ current_page' = other.current_page
    /\ max_retries' = other.max_retries
    /\ retry_count' = other.retry_count
    /\ redirect_count' = other.redirect_count
    /\ res' = other.res
    /\ err' = other.err
    /\ pageLog' = other.pageLog
    /\ rowsLog' = other.rowsLog
    /\ lastBody' = other.lastBody
    /\ sameTS' = other.sameTS
    /\ noTotal' = other.noTotal
    /\ attempts' = other.attempts
    /\ hops' = other.hops
    /\ sleeps' = other.sleeps
    /\ backoff_factor' = other.backoff_factor
    /\ delay' = other.delay
    /\ params' = other.params
    /\ request_params' = other.request_params
    /\ params0' = other.params0
    /\ args' = other.args
    /\ sent' = other.sent
    /\ first' = other.first
    /\ physical' = other.physical
    /\ UNCHANGED world

\* mutant: the page counter outlives the call
SwitchKeepsPage ==
    /\ other' = Frame
    /\ pc' = other.pc
    /\ caller' = other.caller
    /\ arg_max_retries' = other.arg_max_retries
    /\ all_items' = other.all_items
    /\ current_page' = current_page
    /\ max_retries' = other.max_retries
    /\ retry_count' = other.retry_count
    /\ redirect_count' = other.redirect_count
    /\ res' = other.res
    /\ err' = other.err
    /\ pageLog' = other.pageLog
    /\ rowsLog' = other.rowsLog
    /\ lastBody' = other.lastBody
    /\ sameTS' = other.sameTS
    /\ noTotal' = other.noTotal
    /\ attempts' = other.attempts
    /\ hops' = other.hops
    /\ sleeps' = other.sleeps
    /\ backoff_factor' = other.backoff_factor
    /\ delay' = other.delay
    /\ params' = other.params
    /\ request_params' = other.request_params
    /\ params0' = other.params0
    /\ args' = other.args
    /\ sent' = other.sent
    /\ first' = other.first
    /\ physical' = other.physical
    /\ UNCHANGED world

\* api.py:25-37, 110-115: every variable of a call is a local of its own
\* frames, so when the scheduler lets the other call run, the running call's
\* locals are set aside as they are and the other call's are taken up
Switch ==
    /\ other' = Frame
    /\ pc' = other.pc
    /\ caller' = other.caller
    /\ arg_max_retries' = other.arg_max_retries
    /\ all_items' = other.all_items
    /\ current_page' = other.current_page
    /\ max_retries' = other.max_retries
    /\ retry_count' = other.retry_count
    /\ redirect_count' = other.redirect_count
    /\ res' = other.res
    /\ err' = other.err
    /\ pageLog' = other.pageLog
    /\ rowsLog' = other.rowsLog
    /\ lastBody' = other.lastBody
    /\ sameTS' = other.sameTS
    /\ noTotal' = other.noTotal
    /\ attempts' = other.attempts
    /\ hops' = other.hops
    /\ sleeps' = other.sleeps
    /\ backoff_factor' = other.backoff_factor
    /\ delay' = other.delay
    /\ params' = other.params
    /\ request_params' = other.request_params
    /\ params0' = other.params0
    /\ args' = other.args
    /\ sent' = other.sent
    /\ first' = other.first
    /\ physical' = other.physical
    /\ UNCHANGED world

InitTwo ==
    /\ InitCall
    /\ other = IdleFrame
    /\ world \in Worlds

NextTwo ==
    \/ (\E m \in RetryArgs : FetchAllItemsRobust(m)) /\ Deterministic
    \/ PageRequest /\ Deterministic
    \/ Attempt /\ Deterministic
    \/ FollowRedirect /\ Deterministic
    \/ FinishAttempt /\ Deterministic
    \/ Except /\ Deterministic
    \/ Decode /\ Deterministic
    \/ Switch

SpecTwo == InitTwo /\ [][NextTwo]_vars

(* ------------------------- one executor call --------------------------- *)
\* a direct call of request_with_retry and nothing else; every physical
\* request returns or fails in finite time, so a call that can take a step
\* takes one
NextExecutor ==
    \/ \E mr \in -1..MaxRetries : RequestWithRetry(mr)
    \/ Attempt
    \/ LoopExit
    \/ FollowRedirect
    \/ FinishAttempt
    \/ Except

SpecExecutor == Init /\ [][NextExecutor]_vars /\ WF_vars(NextExecutor)

(* ------------------ one call against a finite listing ----------------- *)
\* a transport whose pages before page n decode and whose pages from n on
\* hold no rows
EmptyFrom(n) == [ p \in 1..MaxPage |-> IF p < n THEN "decodable" ELSE "empty" ]

\* one call of fetch_all_items_robust against such a transport
EmptyPageWorlds ==
    [ m : {DEFAULT_MAX_RETRIES}, params : {EmptyParams},
      transport : { EmptyFrom(n) : n \in 1..MaxPage } ]

\* the first page without rows of the world's transport
FirstEmptyPage == CHOOSE n \in 1..MaxPage : world.transport = EmptyFrom(n)

\* the bodies such a transport sends: with or without rows, 'total' absent,
\* not a number or a number, 'pageSize' absent, 0 or 1
ListingBodies ==
    [ kind : {"badtotal"}, rows : {MaxRows}, total : {<< >>},
      pageSize : {<< >>, << 0 >>} ]
    \cup [ kind : {"envelope"}, rows : {0, MaxRows},
           total : {<< >>, << MaxTotal >>}, pageSize : {<< >>, << 0 >>, << 1 >>} ]

\* the step is one the world allows: requests may fail, be redirected or
\* succeed in any way, a body that arrives is one of ListingBodies, and the
\* body of a page from FirstEmptyPage on holds no rows
ServesEmptyPage ==
    /\ pc = "start" => (arg_max_retries' = world.m /\ params0' = world.params)
    /\ pc = "decode" =>
          /\ lastBody' \in ListingBodies
          /\ world.transport[current_page] = "empty" => lastBody'.rows = 0

InitEmptyPage ==
    /\ InitCall
    /\ other = IdleFrame
    /\ world \in EmptyPageWorlds

NextEmptyPage ==
    \/ (\E m \in RetryArgs : FetchAllItemsRobust(m)) /\ ServesEmptyPage
    \/ PageRequest
    \/ Attempt
    \/ FollowRedirect
    \/ FinishAttempt
    \/ Except
    \/ Decode /\ ServesEmptyPage

\* every physical request returns or fails in finite time, so a call that
\* can take a step takes one
SpecEmptyPage ==
    InitEmptyPage /\ [][NextEmptyPage]_vars /\ WF_vars(NextEmptyPage)

TypeOK ==
    /\ pc \in {"start", "loop", "attempt", "redirect", "except", "decode",
               "returned", "exec_returned", "raised"}
    /\ caller \in {"none", "fetch", "direct"}
    /\ current_page \in 1..MaxPage
    /\ retry_count \in 0..(MaxRetries + 1)
    /\ redirect_count \in 0..(MAX_REDIRECTS + 1)
    /\ res \in Responses \cup {NoResponse}
    /\ err \in {"none", "ConnectionError", "HTTPError", "KeyError",
                "RequestException", "ValueError", "TypeError",
                "ZeroDivisionError"}
    /\ backoff_factor \in BackoffFactors
    /\ params \in ParamChoices
    /\ DOMAIN request_params \subseteq {"page", "q"}
    /\ other = IdleFrame
    /\ world = NoWorld
    /\ delay \in 0..Delay(DEFAULT_BACKOFF_FACTOR, MaxRetries + 1, TicksPerSecond)
    /\ physical \in 0..((MaxRetries + 1) * (MAX_REDIRECTS + 2))

(* ------------------------------ properties ----------------------------- *)
\* the rows of pages 1..Len(log), in page order, when page p holds log[p] rows
RECURSIVE PagesConcat(_)
PagesConcat(log) ==
    IF log = << >> THEN << >>
    ELSE PagesConcat(SubSeq(log, 1, Len(log) - 1)) \o Rows(Len(log), log[Len(log)])

\* the pages 1, 2, ..., n in that order
PagesUpTo(n) == [ i \in 1..n |-> i ]

\* the rows decoded before the last decoded page
Front(log) == SubSeq(log, 1, Len(log) - 1)

(* C1: when no envelope carries a reliable total (total absent or 0), a    *)
(* collection returns only after an empty page k+1: it has then issued      *)
(* exactly the page requests 1..k+1 and returns the rows of pages 1..k in   *)
(* page order.                                                              *)
C1_EmptyPageSentinel ==
    (pc = "returned" /\ noTotal) =>
        /\ rowsLog # << >>
        /\ rowsLog[Len(rowsLog)] = 0
        /\ pageLog = PagesUpTo(Len(rowsLog))
        /\ all_items = PagesConcat(Front(rowsLog))

\* the total and page size every page reports, once one page was decoded
ReportsTotal(T, S) ==
    /\ lastBody.kind = "envelope"
    /\ sameTS
    /\ lastBody.total = <<T>>
    /\ lastBody.pageSize = <<S>>

\* every page up to the last one the total announces came with rows
PagesFilled(T, S) ==
    \A p \in 1..Len(rowsLog) : p <= CeilDiv(T, S) => rowsLog[p] > 0

(* C2: when every page reports the same total T > 0 and pageSize S > 0 and  *)
(* every page p <= ceil(T/S) has rows, a collection that returns has issued *)
(* exactly the page requests 1..ceil(T/S), in order, and returns the rows   *)
(* of those pages in page order.                                            *)
C2_StopsAtTotalPages ==
    \A T \in 1..MaxTotal, S \in 1..MaxPageSize :
        (pc = "returned" /\ ReportsTotal(T, S) /\ PagesFilled(T, S)) =>
            /\ pageLog = PagesUpTo(CeilDiv(T, S))
            /\ Len(rowsLog) = CeilDiv(T, S)
            /\ all_items = PagesConcat(rowsLog)

\* total 5 in pages of 2: three requests, rows 2, 2, 1, five records
C2_Witness ==
    /\ pc = "returned"
    /\ ReportsTotal(5, 2)
    /\ rowsLog = <<2, 2, 1>>
    /\ pageLog = <<1, 2, 3>>
    /\ Len(all_items) = 5

\* an exception request_with_retry retries on (api.py:128)
Transient == {"ConnectionError", "HTTPError"}

(* C3: one call of request_with_retry with max_retries >= 0 never makes     *)
(* more than max_retries + 1 attempts, and when it raises a transient       *)
(* failure (every attempt failed) it has made exactly max_retries + 1.      *)
C3_AttemptsWithinBudget ==
    max_retries >= 0 =>
        /\ attempts <= max_retries + 1
        /\ (pc = "raised" /\ err \in Transient) => attempts = max_retries + 1
        /\ (pc = "except" /\ attempts = max_retries + 1) =>
               BudgetExhausted(NextRetryCount(retry_count), max_retries)

\* a direct call with max_retries = 2 whose three attempts all failed
C3_Witness ==
    /\ pc = "raised"
    /\ caller = "direct"
    /\ max_retries = 2
    /\ attempts = 3
    /\ err = "HTTPError"

\* the collector's accounting while page current_page is being requested:
\* pages 1..current_page were requested once each, in order, and all_items
\* holds the rows of the pages decoded before it
PageAccounting ==
    /\ pageLog = PagesUpTo(current_page)
    /\ Len(rowsLog) = current_page - 1
    /\ all_items = PagesConcat(rowsLog)

(* C4: when an attempt succeeds after earlier attempts of the same page     *)
(* request failed, request_with_retry returns that attempt's response, the  *)
(* collector's page log and rows are what they are in a run without         *)
(* failures (every page once, in order), and the page loop's body then      *)
(* advances the page index by exactly one and appends that page's rows.     *)
C4_RetryThenSuccess ==
    [][ /\ (caller = "fetch" /\ pc = "redirect" /\ attempts >= 2
              /\ pc' = "decode") =>
                /\ res' = res
                /\ ~RaisesForStatus(res.status)
                /\ PageAccounting
                /\ UNCHANGED << current_page, all_items, pageLog, rowsLog >>
        /\ pc = "decode" =>
                /\ PageAccounting
                /\ pageLog' = pageLog
                /\ pc' = "loop" =>
                      /\ current_page' = current_page + 1
                      /\ all_items' =
                            all_items \o Rows(current_page, lastBody'.rows)
                /\ pc' = "returned" => current_page' = current_page
      ]_vars

\* page 2's request: two failed attempts, then a 200
C4_Witness ==
    /\ caller = "fetch"
    /\ pc = "redirect"
    /\ current_page = 2
    /\ attempts = 3
    /\ retry_count = 2
    /\ res.status = 200
    /\ Len(all_items) > 0

(* C5: within one attempt at most 5 redirects are followed: the attempt     *)
(* issues its first request and at most 5 more, so the 6th consecutive      *)
(* redirect response is the last response of the attempt.                   *)
C5_AtMostFiveRedirects == hops <= MAX_REDIRECTS + 1

(* C6: request_with_retry returns a response to its caller only when its    *)
(* status is 2xx or it is a redirect left over at the redirect cap; every   *)
(* other final response is a failure that is retried.                       *)
C6_OnlySuccessReturned ==
    [][ (pc = "redirect" /\ pc' \in {"decode", "exec_returned"}) =>
            \/ (200 <= res.status /\ res.status < 300)
            \/ (res.status \in REDIRECT_CODES /\ redirect_count > MAX_REDIRECTS)
      ]_vars

(* C7: a collection called with max_retries = m makes at most m + 1         *)
(* attempts for each page request.                                          *)
C7_CallerBudgetApplied ==
    caller = "fetch" => attempts <= arg_max_retries + 1

(* C8: a redirect response received when the redirect loop has run past     *)
(* the cap is returned to the caller as it is: no exception, no sleep, no   *)
(* retry consumed, no further request.                                      *)
C8_CapIsNotAnError ==
    [][ (pc = "redirect" /\ res.status \in REDIRECT_CODES
           /\ redirect_count > MAX_REDIRECTS) =>
            /\ pc' \in {"decode", "exec_returned"}
            /\ res' = res
            /\ err' = err
            /\ caller = "direct" =>
                   UNCHANGED << retry_count, attempts, hops, sleeps >>
      ]_vars

\* a direct call returned the redirect it received past the cap, on its
\* first attempt
C8_Witness ==
    /\ pc = "exec_returned"
    /\ res.status \in REDIRECT_CODES
    /\ redirect_count > MAX_REDIRECTS
    /\ retry_count = 0
    /\ sleeps = 0
    /\ err = "none"

(* C9: a collection that fails raises: after an exhausted retry budget, an  *)
(* undecodable body or a lookup error the call is in its raised state with  *)
(* the error, also when rows were already accumulated; it returns only      *)
(* from a decoded envelope whose rows are empty or that passes the          *)
(* last-page test, and then returns the rows of all the pages decoded.      *)
C9_NoPartialResult ==
    caller = "fetch" =>
        /\ pc = "returned" =>
              /\ err = "none"
              /\ lastBody.kind = "envelope"
              /\ \/ lastBody.rows = 0
                 \/ IsLastPage(current_page, TotalOf(lastBody),
                               PageSizeOf(lastBody))
              /\ all_items = PagesConcat(rowsLog)
        /\ (err \in Transient /\ BudgetExhausted(retry_count, max_retries)) =>
              pc = "raised"
        /\ err \in {"ValueError", "TypeError", "KeyError"} => pc = "raised"
        /\ lastBody.kind = "nonjson" => (pc = "raised" /\ err = "ValueError")

\* page 2's request failed for good after page 1's rows were accumulated
C9_Witness ==
    /\ caller = "fetch"
    /\ pc = "raised"
    /\ err \in Transient
    /\ current_page = 2
    /\ Len(all_items) > 0

(* C10: an undecodable body ends the collection at once: the call raises    *)
(* the ValueError, the page was requested exactly once and no page after    *)
(* it is requested.                                                         *)
C10_DecodeFailureIsFatal ==
    lastBody.kind = "nonjson" =>
        /\ pc = "raised"
        /\ err = "ValueError"
        /\ pageLog = PagesUpTo(current_page)
        /\ Len(rowsLog) = current_page - 1

\* page 2's body was not JSON
C10_Witness ==
    /\ lastBody.kind = "nonjson"
    /\ pc = "raised"
    /\ current_page = 2
    /\ pageLog = <<1, 2>>

(* C11: the redirect counter is initialised once per logical request and   *)
(* no retry resets it: the first response of a retry attempt leaves the     *)
(* counter as the failed attempt before it left it.                         *)
C11_CounterKeptAcrossRetries ==
    [][ (pc = "attempt" /\ retry_count >= 1 /\ pc' = "redirect") =>
            redirect_count' = redirect_count
      ]_vars

(* C13: pagination is strictly sequential. Every logical page request is   *)
(* issued from the page loop, the first for page 1 and each later one for   *)
(* the page after the one requested before it, and only once every page     *)
(* requested earlier has been decoded with rows that were all appended to   *)
(* the result.                                                              *)
C13_SequentialPages ==
    [][ pageLog' # pageLog =>
            /\ pc = "loop"
            /\ pageLog' = Append(pageLog, Len(pageLog) + 1)
            /\ current_page = Len(pageLog) + 1
            /\ Len(rowsLog) = Len(pageLog)
            /\ \A p \in 1..Len(rowsLog) : rowsLog[p] > 0
            /\ all_items = PagesConcat(rowsLog)
      ]_vars

\* page 3 was requested after pages 1 and 2 were decoded
C13_Witness ==
    /\ pageLog = PagesUpTo(3)
    /\ Len(rowsLog) = 2
    /\ Len(all_items) = rowsLog[1] + rowsLog[2]

\* the smaller of two integers
Min(a, b) == IF a <= b THEN a ELSE b

(* C19: a backoff sleep happens only in the handler of a failed attempt     *)
(* that is followed by another attempt of the same call: each such step     *)
(* sleeps exactly once, after at least one attempt, and no other step       *)
(* sleeps.  Outside the handler a call with a retry budget max_retries     *)
(* >= 0 that has handled f = retry_count failed attempts has slept exactly  *)
(* min(f, max_retries) times: the final failure is raised without a sleep.  *)
C19_SleepsOnlyBetweenAttempts ==
    [][ /\ sleeps' > sleeps =>
              /\ pc = "except"
              /\ pc' = "attempt"
              /\ sleeps' = sleeps + 1
              /\ attempts >= 1
              /\ attempts' = attempts
              /\ LoopCondition(retry_count', max_retries)
        /\ (pc' # "except" /\ max_retries' >= 0) =>
              sleeps' = Min(retry_count', max_retries')
      ]_vars

\* every attempt of a call with budget 3 failed: four failures, three sleeps
C19_Witness ==
    /\ pc = "raised"
    /\ err \in {"ConnectionError", "HTTPError"}
    /\ max_retries = 3
    /\ retry_count = 4
    /\ attempts = 4
    /\ sleeps = 3

\* a step of Decode that read a decodable body with rows
DecodedRows == pc = "decode" /\ pc' # "decode" /\ lastBody'.kind # "nonjson"
                  /\ lastBody'.rows > 0

(* C16: a page whose envelope carries a pageSize that is present but not    *)
(* > 0, with rows, is measured by len(rows): it ends the collection when    *)
(* its page index is at least ceil(total / len(rows)).                      *)
C16_NonPositivePageSizeUsesLen ==
    [][ ( /\ DecodedRows
          /\ lastBody'.kind = "envelope"
          /\ lastBody'.pageSize # << >>
          /\ lastBody'.pageSize[1] <= 0
          /\ current_page >= CeilDiv(TotalOf(lastBody'), lastBody'.rows) ) =>
            pc' = "returned"
      ]_vars

(* C17: the total-pages division is never evaluated with a page size that   *)
(* is not positive, so no ZeroDivisionError is ever raised; a decoded page  *)
(* with rows whose page size in effect is 0 has its rows appended, does     *)
(* not end the collection, and moves the page loop on to the next page.     *)
C17_DivisionGuarded ==
    [][ /\ err' # "ZeroDivisionError"
        /\ (DecodedRows /\ PageSizeOf(lastBody') <= 0) =>
              /\ all_items' = all_items \o Rows(current_page, lastBody'.rows)
              /\ err' = "none"
              /\ pc' = "loop"
              /\ current_page' = current_page + 1
      ]_vars

\* page 2 reported page size 0 with rows and page 3 was requested after it
C17_Witness ==
    /\ PageSizeOf(lastBody) = 0
    /\ lastBody.rows > 0
    /\ Len(rowsLog) = 2
    /\ Len(all_items) = rowsLog[1] + rowsLog[2]
    /\ pageLog = << 1, 2, 3 >>

(* C12: whatever the positive backoff base and the jitter draws are, every  *)
(* backoff delay is strictly positive and no delay is shorter than the      *)
(* delay slept before it in the same request_with_retry call.               *)
C12_DelaysNonDecreasing ==
    [][ (backoff_factor > 0 /\ sleeps' = sleeps + 1) =>
            /\ delay' > 0
            /\ sleeps >= 1 => delay' >= delay
      ]_vars

(* C18: the collector never changes the caller's params mapping: from the   *)
(* call on, through every page request, return and failure, the mapping     *)
(* equals its value at the call.  The params of every page request hold     *)
(* the caller's keys and 'page': 'page' is the current page index, also     *)
(* when the caller supplied a 'page' of its own, and every other key has    *)
(* the caller's value.                                                      *)
C18_CallerParamsUntouched ==
    [][ /\ caller' = "fetch" => params' = params0'
        /\ caller = "fetch" => params0' = params0
        /\ pageLog' # pageLog =>
              /\ DOMAIN request_params' = DOMAIN params0 \cup {"page"}
              /\ request_params'["page"] = current_page
              /\ \A k \in DOMAIN params0 \ {"page"} :
                    request_params'[k] = params0[k]
      ]_vars

\* a collection over two pages returned; the caller's own 'page' is still 9
C18_Witness ==
    /\ pc = "returned"
    /\ pageLog = << 1, 2 >>
    /\ "page" \in DOMAIN params0
    /\ params0["page"] = 9
    /\ params = params0
    /\ request_params = [ page |-> 2, q |-> 7 ]

\* the arguments of a request other than its url
Payload(r) ==
    << r.method, r.headers, r.data, r.params, r.proxies, r.verify, r.timeout >>

(* C20: the request that follows a redirect goes to the URL of the          *)
(* response's Location header, and its method, headers, body, query         *)
(* params, proxies, TLS-verification flag and timeout are those of the      *)
(* attempt's first request, which are the ones request_with_retry was       *)
(* called with.  The redirect counter goes up by exactly 1 for every        *)
(* redirect request that was answered, and by nothing else.                 *)
C20_RedirectKeepsRequest ==
    [][ /\ (pc = "redirect" /\ hops' = hops + 1) =>
              /\ sent'.url = RedirectedUrl(res)
              /\ Payload(sent') = Payload(first)
              /\ first' = first
              /\ first = FirstRequest(args)
              /\ pc' = "redirect" => redirect_count' = redirect_count + 1
        /\ redirect_count' > redirect_count =>
              /\ pc = "redirect" /\ pc' = "redirect"
              /\ hops' = hops + 1
              /\ redirect_count' = redirect_count + 1
      ]_vars

\* a POST with a body was redirected twice
C20_Witness ==
    /\ pc = "redirect"
    /\ redirect_count = 2
    /\ hops = 3
    /\ first.method = "POST"
    /\ first.url = "url"
    /\ sent = [ first EXCEPT !.url = "redirected_url" ]

\* a call has ended: it returned or an error left it
Ended(p) == p \in {"returned", "raised"}

(* C14: when two calls run interleaved, every step is either a step of the  *)
(* running call, which is a step that call can take alone and leaves the    *)
(* page counter, retry counter, redirect counter, rows and every other      *)
(* local of the suspended call as they are, or a switch between the calls,  *)
(* which changes no local of either; and a call that returns, returns the   *)
(* rows of the pages it decoded itself, in page order.                      *)
C14_CallsIsolated ==
    [][ /\ \/ other' = Frame /\ Frame' = other /\ world' = world
           \/ other' = other /\ Next
        /\ pc' = "returned" => all_items' = PagesConcat(rowsLog')
        /\ other.pc = "returned" => other.all_items = PagesConcat(other.rowsLog)
      ]_vars

\* one call sleeps between attempts for a page that fails while the other,
\* which has that page still ahead, has collected rows
C14_Witness ==
    /\ pc = "attempt"
    /\ retry_count = 2
    /\ sleeps = 2
    /\ current_page = 2
    /\ other.pc = "decode"
    /\ other.current_page = 1
    /\ other.retry_count = 0
    /\ Len(all_items) = MaxRows
    /\ other.all_items = << >>

(* C15: two calls with the same arguments against a transport whose         *)
(* responses depend on url and page only end the same way: both return or   *)
(* both fail with the same error, with the same accumulated rows and the    *)
(* same sequence of page requests, and the caller's params are as they      *)
(* were.                                                                    *)
C15_SameOutcomeTwice ==
    (Ended(pc) /\ Ended(other.pc)) =>
        /\ pc = other.pc
        /\ err = other.err
        /\ all_items = other.all_items
        /\ pageLog = other.pageLog
        /\ params = world.params
        /\ other.params = world.params

\* both calls returned the rows of two pages after three page requests
C15_Witness ==
    /\ pc = "returned"
    /\ other.pc = "returned"
    /\ pageLog = << 1, 2, 3 >>
    /\ other.pageLog = << 1, 2, 3 >>
    /\ Len(all_items) = 2 * MaxRows
    /\ other.all_items = all_items

(* C24: a redirect response without a Location header ends                  *)
(* request_with_retry at once with a KeyError: the step that reads the      *)
(* header raises without entering the handler, so the retry counter, the    *)
(* sleeps, the attempts and the physical requests stay as they are          *)
(* whatever budget is left, and nothing is done after it.                   *)
C24_MissingLocationIsFatal ==
    [][ /\ ( /\ pc = "redirect"
             /\ FollowCondition(res.status, redirect_count)
             /\ ~res.location ) =>
              /\ pc' = "raised"
              /\ err' = "KeyError"
              /\ retry_count' = retry_count
              /\ sleeps' = sleeps
              /\ attempts' = attempts
              /\ hops' = hops
        /\ err # "KeyError"
      ]_vars

\* the second attempt's redirect had no Location, with two retries left
C24_Witness ==
    /\ pc = "raised"
    /\ err = "KeyError"
    /\ max_retries = 3
    /\ retry_count = 1
    /\ attempts = 2
    /\ sleeps = 1

\* positions inside request_with_retry
InExecutor(p) == p \in {"attempt", "redirect", "except"}

(* C23: the first request of every attempt, first or retry, goes to the     *)
(* url request_with_retry was called with, with the headers and params it   *)
(* was called with, and from attempt to attempt and hop to hop these        *)
(* arguments stay what they were: a redirect's target is used for that      *)
(* hop only.                                                                *)
C23_RetryStartsAtOriginalUrl ==
    [][ /\ (pc = "attempt" /\ InExecutor(pc')) =>
              /\ sent'.url = args.url
              /\ sent'.headers = args.headers
              /\ sent'.params = args.params
              /\ first' = sent'
        /\ (InExecutor(pc) /\ InExecutor(pc')) => args' = args
      ]_vars

\* the first attempt followed redirects and failed; the retry's first
\* request went to the caller's url
C23_Witness ==
    /\ pc = "except"
    /\ retry_count = 1
    /\ hops = 1
    /\ redirect_count >= 1
    /\ args.url = "url"
    /\ sent.url = "url"

\* physical requests one attempt can issue: the first and one per pass of
\* the redirect loop
PerAttempt == MAX_REDIRECTS + 2

(* C25: a call of request_with_retry with max_retries >= 0 ends, by return  *)
(* or by an error, having issued at most MAX_REDIRECTS + 2 physical         *)
(* requests in any attempt and at most (max_retries + 1) times that many    *)
(* in all; the raise after the retry loop happens only when max_retries is  *)
(* negative, and then without any request.                                  *)
C25_ExecutorTerminates ==
    /\ [](( caller = "direct" /\ max_retries >= 0 ) =>
              /\ hops <= PerAttempt
              /\ physical <= (max_retries + 1) * PerAttempt)
    /\ [](err = "RequestException" => (max_retries < 0 /\ physical = 0))
    /\ ( caller = "direct" /\ max_retries >= 0 ) ~>
           ( pc \in {"exec_returned", "raised"} )

\* every attempt of a call with the default budget issued seven requests
C25_Witness ==
    /\ pc = "raised"
    /\ max_retries = DEFAULT_MAX_RETRIES
    /\ attempts = DEFAULT_MAX_RETRIES + 1
    /\ physical = (DEFAULT_MAX_RETRIES + 1) * PerAttempt

(* C21: when the server holds no rows for page N and every body before it *)
(* decodes, a call of fetch_all_items_robust ends, by return or by an      *)
(* error, having requested pages 1..k for some k <= N only; the page loop  *)
(* goes on to a further page only from a page whose request did not fail   *)
(* for good, that holds rows, and that the last-page test does not stop.   *)
C21_EndsByEmptyPage ==
    /\ []( Len(pageLog) <= FirstEmptyPage )
    /\ [][ /\ ( pc = "decode" /\ current_page = FirstEmptyPage ) =>
                 ( pc' = "returned" /\ pageLog = PagesUpTo(FirstEmptyPage) )
           /\ ( caller = "fetch" /\ pc # "loop" /\ pc' = "loop" ) =>
                 /\ pc = "decode" /\ err = "none" /\ ~RaisesForStatus(res.status)
                 /\ lastBody'.rows > 0
                 /\ ~IsLastPage(current_page, TotalOf(lastBody'), PageSizeOf(lastBody'))
                 /\ current_page' = current_page + 1
         ]_vars
    /\ ( caller = "fetch" ) ~> Ended(pc)

\* the call returned at the third page, the first one without rows
C21_Witness ==
    /\ pc = "returned"
    /\ FirstEmptyPage = 3
    /\ pageLog = PagesUpTo(3)
    /\ lastBody.rows = 0
    /\ Len(all_items) > 0

\* whether the envelope b of page p, taken alone, ends the listing: it has
\* no rows, or its page size (the number of its rows when it names none) is
\* positive and p pages of that size hold its total (0 when it names none)
StopsAt(b, p) ==
    LET T == IF b.total = << >> THEN 0 ELSE b.total[1]
        S == IF b.pageSize = << >> THEN b.rows ELSE b.pageSize[1]
    IN  b.rows = 0 \/ (S > 0 /\ p * S >= T)

(* C22: whether the loop stops at page p is decided by page p's envelope   *)
(* alone: it returns at p exactly when StopsAt holds of that envelope and   *)
(* goes on to page p + 1 otherwise, whatever earlier pages said; what it   *)
(* returns is the rows of pages 1..p in order, a page without rows adding  *)
(* nothing.                                                                 *)
C22_StopDecidedByOwnEnvelope ==
    [][ ( pc = "decode" /\ pc' # "decode" /\ lastBody'.kind = "envelope" ) =>
            /\ pc' = "returned" <=> StopsAt(lastBody', current_page)
            /\ pc' = "loop" <=> ~StopsAt(lastBody', current_page)
            /\ pc' = "loop" => current_page' = current_page + 1
            /\ pc' = "returned" =>
                  /\ pageLog = PagesUpTo(current_page)
                  /\ Len(rowsLog') = current_page
                  /\ \A q \in 1..(current_page - 1) : rowsLog'[q] > 0
                  /\ rowsLog'[current_page] = lastBody'.rows
                  /\ all_items' = PagesConcat(rowsLog')
                  /\ lastBody'.rows = 0 => all_items' = all_items
      ]_vars

\* the call returned at page 2 by page 2's own total, page 1 having named a
\* total that two pages of its size do not hold
C22_Witness ==
    /\ pc = "returned"
    /\ pageLog = PagesUpTo(2)
    /\ ~sameTS
    /\ lastBody.kind = "envelope"
    /\ lastBody.rows > 0
    /\ lastBody.total = << 1 >>
    /\ Len(all_items) = rowsLog[1] + rowsLog[2]

=============================================================================
